---- MODULE Spec2Model ----
(***************************************************************************)
(* Model of astar_search.py: shortest_path (A* over a road map with        *)
(* Euclidean edge costs and Euclidean heuristic), euc_dist and             *)
(* reconstruct_path.                                                       *)
(*                                                                         *)
(* Numbers.  Python floats are binary floating point: sqrt and + return    *)
(* the representable number nearest to the exact result (ties to even).    *)
(* The model keeps that rule with a significand of Precision bits instead  *)
(* of 53.  A value is held as an integer count of ticks, one tick being    *)
(* 2^-(Precision-1), the spacing of the representable numbers in [1,2).    *)
(* Every distance between two distinct grid points is >= 1, so every value *)
(* the search computes is 0 or a whole number of ticks.                    *)
(***************************************************************************)
EXTENDS Integers, Sequences, FiniteSets, Bags, TLC

\* ---------------------------------------------------------------- bounds
NumNodes == 4
MaxRoads == 4
NumPoints == 4
Precision == 13
\* Nodes reconstruct_path is followed for.
MaxWalk == 6

\* ------------------------------------------------------------ arithmetic
RECURSIVE Pow2(_)
Pow2(n) == IF n = 0 THEN 1 ELSE 2 * Pow2(n - 1)

RECURSIVE BitLength(_)
BitLength(x) == IF x = 0 THEN 0 ELSE 1 + BitLength(x \div 2)

\* Nearest number with a Precision-bit significand, ties to even.  The
\* argument is evaluated once and rounded as the value v.
RoundNearestEven(x) ==
    [v \in Nat |->
        IF v < Pow2(Precision) THEN v
        ELSE LET unit == Pow2(BitLength(v) - Precision)
                 q    == v \div unit
                 r    == v % unit
                 up   == (2 * r > unit) \/ (2 * r = unit /\ q % 2 = 1)
             IN  (IF up THEN q + 1 ELSE q) * unit][x]

\* Floating-point addition: the exact sum, rounded.
FAdd(a, b) == RoundNearestEven(a + b)

RECURSIVE ISqrt(_)
ISqrt(n) ==
    IF n < 2 THEN n
    ELSE LET s == 2 * ISqrt(n \div 4)
         IN  IF (s + 1) * (s + 1) <= n THEN s + 1 ELSE s

\* k with 4^k <= n < 4^(k+1): the binary exponent of sqrt(n), n >= 1.
RECURSIVE SqrtExponent(_)
SqrtExponent(n) == IF n < 4 THEN 0 ELSE 1 + SqrtExponent(n \div 4)

\* math.sqrt of a non-negative integer: the correctly rounded square root,
\* in ticks.  sqrt(n) is never half-way between two representable numbers.
RoundedRoot(n) ==
    IF n = 0 THEN 0
    ELSE LET k == SqrtExponent(n)
             s == n * Pow2(2 * (Precision - 1 - k))
             r == ISqrt(s)
         IN  (IF s > r * r + r THEN r + 1 ELSE r) * Pow2(k)

\* ----------------------------------------------------------------- input
None == 0
Nodes == 1 .. NumNodes
\* Identifiers a caller may pass: the nodes of the map and one that is not.
NodeIds == 1 .. (NumNodes + 1)

Points == << <<0, 0>>, <<1, 1>>, <<4, 4>>, <<5, 5>>, <<4, 1>> >>

\* The largest squared distance between two candidate points.
MaxSquare ==
    LET sq(p, q) == (p[1] - q[1]) * (p[1] - q[1]) + (p[2] - q[2]) * (p[2] - q[2])
        all == { sq(Points[i], Points[j]) : i \in DOMAIN Points, j \in DOMAIN Points }
    IN  CHOOSE m \in all : \A o \in all : o <= m

\* sqrt, tabulated once over the arguments euc_dist can pass.
SqrtTable == [n \in 0 .. MaxSquare |-> RoundedRoot(n)]

sqrt(n) == SqrtTable[n]

\* Node names are opaque, so maps are listed up to renaming: the nodes lie
\* on the candidate points in non-decreasing order of point index.
Layouts ==
    { c \in [Nodes -> 1 .. NumPoints] :
        \A n \in Nodes : n = NumNodes \/ c[n] <= c[n + 1] }

\* Undirected roads, a self-loop being the road {n}.
RoadSets ==
    { E \in SUBSET { {n, m} : n \in Nodes, m \in Nodes } :
        Cardinality(E) <= MaxRoads }

Maps ==
    { [intersections |-> [n \in Nodes |-> Points[c[n]]],
       roads         |-> [n \in Nodes |-> {m \in Nodes : {n, m} \in E}]] :
      c \in Layouts, E \in RoadSets }

\* Nodes reachable from s along the roads of map.
RECURSIVE ReachFrom(_, _)
ReachFrom(map, seen) ==
    LET more == seen \cup UNION { map.roads[n] : n \in seen }
    IN  IF more = seen THEN seen ELSE ReachFrom(map, more)

Reachable(map, s) == ReachFrom(map, {s})

\* The search reads M.roads only at nodes it has reached, and not at all
\* when it raises, so the maps are listed without the roads it cannot read.
Relevant(map, s, g) ==
    \A n \in Nodes : map.roads[n] # {} =>
        /\ s \in Nodes
        /\ g \in Nodes
        /\ n \in Reachable(map, s)

\* ----------------------------------------------------------------- state
\* M, start, goal: the arguments.  frontier, prev_link, G, H, current_node:
\* the locals of shortest_path.  result: what the call returned or raised.
\* History: extracted (nodes frontier.get() has returned), goal_path (the
\* value of the reconstruct_path call of line 52, which the code drops) and
\* previous (outcome of the preceding call on the same arguments),
\* expanded_at (for each extracted node, G[node] at its latest extraction)
\* and stale (the latest extraction found the node already expanded at its
\* current G).  walk_curr, walk_path: the locals curr and path of
\* reconstruct_path when it is run step by step.
VARIABLES M, start, goal, pc, frontier, prev_link, G, H, current_node,
          result, extracted, goal_path, previous, expanded_at, stale,
          walk_curr, walk_path

vars == << M, start, goal, pc, frontier, prev_link, G, H, current_node,
           result, extracted, goal_path, previous, expanded_at, stale,
           walk_curr, walk_path >>

walk == << walk_curr, walk_path >>

EmptyDict == [n \in {} |-> None]

Pending  == [kind |-> "pending", path |-> << >>]
NoPath   == [kind |-> "None", path |-> << >>]
KeyError == [kind |-> "KeyError", path |-> << >>]
Path(p)  == [kind |-> "path", path |-> p]

\* -------------------------------------------------------------- euc_dist
euc_dist(map, node1, node2) ==
    LET p1 == map.intersections[node1]
        p2 == map.intersections[node2]
        dx == p1[1] - p2[1]
        dy == p1[2] - p2[2]
    IN  sqrt(dx * dx + dy * dy)

\* ------------------------------------------------------ reconstruct_path
\* The while loop of reconstruct_path; fuel counts the iterations left
\* before a node of the chain must have repeated (the loop then never ends).
RECURSIVE Backtrack(_, _, _, _, _)

\* Variant: a chain that breaks off returns the nodes gathered so far.
Backtrack_PartialPath(links, s, curr, path, fuel) ==
    IF curr = s THEN Path(path)
    ELSE IF fuel = 0 THEN [kind |-> "diverges", path |-> << >>]
    ELSE LET nxt == IF curr \in DOMAIN links THEN links[curr] ELSE None
         IN  IF nxt = None THEN Path(path)
             ELSE Backtrack(links, s, nxt, << nxt >> \o path, fuel - 1)

\* Variant: the backtracked list is returned without being reversed.
Backtrack_NotReversed(links, s, curr, path, fuel) ==
    IF curr = s THEN Path(path)
    ELSE IF fuel = 0 THEN [kind |-> "diverges", path |-> << >>]
    ELSE LET nxt == IF curr \in DOMAIN links THEN links[curr] ELSE None
         IN  IF nxt = None THEN NoPath
             ELSE Backtrack(links, s, nxt, path \o << nxt >>, fuel - 1)

Backtrack(links, s, curr, path, fuel) ==
    IF curr = s THEN Path(path)
    ELSE IF fuel = 0 THEN [kind |-> "diverges", path |-> << >>]
    ELSE LET nxt == IF curr \in DOMAIN links THEN links[curr] ELSE None
         IN  IF nxt = None THEN NoPath
             ELSE Backtrack(links, s, nxt, << nxt >> \o path, fuel - 1)

\* Variant: the link of goal is followed before goal is compared to start.
reconstruct_path_LinkFirst(links, s, g) ==
    IF g \notin DOMAIN links \/ links[g] = None THEN NoPath
    ELSE Backtrack(links, s, links[g], << links[g], g >>, Cardinality(DOMAIN links))

reconstruct_path(links, s, g) ==
    Backtrack(links, s, g, << g >>, Cardinality(DOMAIN links) + 1)

\* --------------------------------------------------------- shortest_path
Init ==
    /\ M \in Maps
    /\ start \in NodeIds
    /\ goal \in NodeIds
    /\ Relevant(M, start, goal)
    /\ pc = "call"
    /\ frontier = EmptyBag
    /\ prev_link = EmptyDict
    /\ G = EmptyDict
    /\ H = EmptyDict
    /\ current_node = None
    /\ result = Pending
    /\ extracted = {}
    /\ goal_path = Pending
    /\ previous = Pending
    /\ expanded_at = EmptyDict
    /\ stale = FALSE
    /\ walk_curr = None
    /\ walk_path = << >>

\* A dict subscript d[k] raises KeyError when k is not a key of d.
SubscriptRaises(d, k) == k \notin DOMAIN d

\* Variant: the exception is swallowed and the call returns None.
Raise_ReturnsNone ==
    /\ pc' = "done"
    /\ result' = NoPath

\* An exception nothing catches ends the call.
Raise ==
    /\ pc' = "raised"
    /\ result' = KeyError

\* Lines 39-40: euc_dist(M, node, goal) subscripts M.intersections with
\* node and with goal, once for every key of M.intersections.
HeuristicRaises ==
    \E node \in DOMAIN M.intersections :
        \/ SubscriptRaises(M.intersections, node)
        \/ SubscriptRaises(M.intersections, goal)

\* Lines 25-43: the maps of the search and the first frontier entry.  H has
\* the keys of M.intersections, so H[start] raises for any other start.
Call ==
    /\ pc = "call"
    /\ IF HeuristicRaises \/ SubscriptRaises(M.intersections, start)
       THEN /\ Raise
            /\ UNCHANGED << frontier, prev_link, G, H >>
       ELSE /\ prev_link' = [n \in {start} |-> None]
            /\ G' = [n \in {start} |-> 0]
            /\ H' = [node \in DOMAIN M.intersections |-> euc_dist(M, node, goal)]
            /\ frontier' = SetToBag({ << FAdd(H'[start], 0), start >> })
            /\ pc' = "loop"
            /\ result' = result
    /\ UNCHANGED << M, start, goal, current_node, extracted, goal_path, previous,
                    expanded_at, stale, walk >>

\* The entries frontier.get() may return: those of least priority.
MinEntries(fr) ==
    { e \in BagToSet(fr) : \A o \in BagToSet(fr) : e[1] <= o[1] }

\* Variant: a neighbor already in G is never relaxed again.
RelaxOne_UnseenOnly(s, cur, neighbor) ==
    LET g_tentative == FAdd(s.G[cur], euc_dist(M, cur, neighbor))
    IN  IF neighbor \notin DOMAIN s.G
        THEN [G |-> [n \in DOMAIN s.G \cup {neighbor} |->
                        IF n = neighbor THEN g_tentative ELSE s.G[n]],
              prev_link |-> [n \in DOMAIN s.prev_link \cup {neighbor} |->
                        IF n = neighbor THEN cur ELSE s.prev_link[n]],
              frontier |-> s.frontier (+)
                        SetToBag({ << FAdd(g_tentative, H[neighbor]), neighbor >> })]
        ELSE s

\* Variant: a lowered cost is written without its predecessor.
RelaxOne_KeepsLink(s, cur, neighbor) ==
    LET g_tentative == FAdd(s.G[cur], euc_dist(M, cur, neighbor))
    IN  IF neighbor \notin DOMAIN s.G \/ g_tentative < s.G[neighbor]
        THEN [G |-> [n \in DOMAIN s.G \cup {neighbor} |->
                        IF n = neighbor THEN g_tentative ELSE s.G[n]],
              prev_link |-> [n \in DOMAIN s.prev_link \cup {neighbor} |->
                        IF n \in DOMAIN s.prev_link THEN s.prev_link[n]
                        ELSE cur],
              frontier |-> s.frontier (+)
                        SetToBag({ << FAdd(g_tentative, H[neighbor]), neighbor >> })]
        ELSE s

\* Variant: only a node new to G is put on the frontier.
RelaxOne_NoRequeue(s, cur, neighbor) ==
    LET g_tentative == FAdd(s.G[cur], euc_dist(M, cur, neighbor))
    IN  IF neighbor \notin DOMAIN s.G \/ g_tentative < s.G[neighbor]
        THEN [G |-> [n \in DOMAIN s.G \cup {neighbor} |->
                        IF n = neighbor THEN g_tentative ELSE s.G[n]],
              prev_link |-> [n \in DOMAIN s.prev_link \cup {neighbor} |->
                        IF n = neighbor THEN cur ELSE s.prev_link[n]],
              frontier |-> IF neighbor \in DOMAIN s.G THEN s.frontier
                           ELSE s.frontier (+)
                        SetToBag({ << FAdd(g_tentative, H[neighbor]), neighbor >> })]
        ELSE s

\* Variant: the test is <= where the code has <.
RelaxOne_NotStrict(s, cur, neighbor) ==
    LET g_tentative == FAdd(s.G[cur], euc_dist(M, cur, neighbor))
    IN  IF neighbor \notin DOMAIN s.G \/ g_tentative <= s.G[neighbor]
        THEN [G |-> [n \in DOMAIN s.G \cup {neighbor} |->
                        IF n = neighbor THEN g_tentative ELSE s.G[n]],
              prev_link |-> [n \in DOMAIN s.prev_link \cup {neighbor} |->
                        IF n = neighbor THEN cur ELSE s.prev_link[n]],
              frontier |-> s.frontier (+)
                        SetToBag({ << FAdd(g_tentative, H[neighbor]), neighbor >> })]
        ELSE s

\* Lines 58-72 for one neighbor, on the maps s = [G, prev_link, frontier].
RelaxOne(s, cur, neighbor) ==
    LET g_tentative == FAdd(s.G[cur], euc_dist(M, cur, neighbor))
    IN  IF neighbor \notin DOMAIN s.G \/ g_tentative < s.G[neighbor]
        THEN [G |-> [n \in DOMAIN s.G \cup {neighbor} |->
                        IF n = neighbor THEN g_tentative ELSE s.G[n]],
              prev_link |-> [n \in DOMAIN s.prev_link \cup {neighbor} |->
                        IF n = neighbor THEN cur ELSE s.prev_link[n]],
              frontier |-> s.frontier (+)
                        SetToBag({ << FAdd(g_tentative, H[neighbor]), neighbor >> })]
        ELSE s

\* Lines 55-72: the for loop over M.roads[current_node], in list order; t is
\* the maps as one iteration leaves them to the next.
RECURSIVE RelaxAll(_, _, _)
RelaxAll(s, cur, todo) ==
    IF todo = {} THEN s
    ELSE LET neighbor == CHOOSE n \in todo : \A m \in todo : n <= m
         IN  CHOOSE r \in { RelaxAll(t, cur, todo \ {neighbor}) :
                              t \in { RelaxOne(s, cur, neighbor) } } : TRUE

\* Variant: line 52 returns the reconstructed path, ending the search as
\* soon as the goal comes out of the frontier.
Expand_ReturnsAtGoal ==
    /\ pc = "loop"
    /\ frontier # EmptyBag
    /\ \E e \in MinEntries(frontier) :
        LET cur == e[2]
            s0  == [G |-> G, prev_link |-> prev_link,
                    frontier |-> frontier (-) SetToBag({e})]
        IN  \E s1 \in {IF cur = goal THEN s0 ELSE RelaxAll(s0, cur, M.roads[cur])} :
            /\ current_node' = cur
            /\ goal_path' = IF cur = goal
                            THEN reconstruct_path(prev_link, start, goal)
                            ELSE goal_path
            /\ result' = IF cur = goal THEN goal_path' ELSE result
            /\ pc' = IF cur = goal THEN "done" ELSE pc
            /\ G' = s1.G
            /\ prev_link' = s1.prev_link
            /\ frontier' = s1.frontier
            /\ extracted' = extracted \cup {cur}
            /\ stale' = (cur \in DOMAIN expanded_at /\ expanded_at[cur] = G[cur])
            /\ expanded_at' = [n \in DOMAIN expanded_at \cup {cur} |->
                                IF n = cur THEN G[cur] ELSE expanded_at[n]]
    /\ UNCHANGED << M, start, goal, H, previous, walk >>

\* Lines 46-72: one iteration of the main loop.  Line 52 calls
\* reconstruct_path when the goal comes out and drops what it returns; the
\* iteration then goes on to the for loop like any other.
Expand ==
    /\ pc = "loop"
    /\ frontier # EmptyBag
    /\ \E e \in MinEntries(frontier) :
        LET cur == e[2]
            s0  == [G |-> G, prev_link |-> prev_link,
                    frontier |-> frontier (-) SetToBag({e})]
        IN  \E s1 \in {RelaxAll(s0, cur, M.roads[cur])} :
            /\ current_node' = cur
            /\ goal_path' = IF cur = goal
                            THEN reconstruct_path(prev_link, start, goal)
                            ELSE goal_path
            /\ G' = s1.G
            /\ prev_link' = s1.prev_link
            /\ frontier' = s1.frontier
            /\ extracted' = extracted \cup {cur}
            /\ stale' = (cur \in DOMAIN expanded_at /\ expanded_at[cur] = G[cur])
            /\ expanded_at' = [n \in DOMAIN expanded_at \cup {cur} |->
                                IF n = cur THEN G[cur] ELSE expanded_at[n]]
    /\ UNCHANGED << M, start, goal, pc, H, result, previous, walk >>

\* Line 74: the frontier is empty, the loop ends and the path is returned.
Return ==
    /\ pc = "loop"
    /\ frontier = EmptyBag
    /\ result' = reconstruct_path(prev_link, start, goal)
    /\ pc' = "done"
    /\ UNCHANGED << M, start, goal, frontier, prev_link, G, H, current_node,
                    extracted, goal_path, previous, expanded_at, stale, walk >>

Next == Call \/ Expand \/ Return

Spec == Init /\ [][Next]_vars

\* The caller calls shortest_path again with the same arguments: every
\* local is created afresh (lines 25-43), the earlier outcome is remembered.
Recall ==
    /\ pc \in {"done", "raised"}
    /\ previous = Pending
    /\ previous' = result
    /\ pc' = "call"
    /\ frontier' = EmptyBag
    /\ prev_link' = EmptyDict
    /\ G' = EmptyDict
    /\ H' = EmptyDict
    /\ current_node' = None
    /\ result' = Pending
    /\ extracted' = {}
    /\ goal_path' = Pending
    /\ expanded_at' = EmptyDict
    /\ stale' = FALSE
    /\ UNCHANGED << M, start, goal, walk >>

NextRepeat == Next \/ Recall

SpecRepeat == Init /\ [][NextRepeat]_vars

\* ------------------------------------------ the search under any heuristic
\* Values a heuristic other than the code's may give a node: zero, and eight
\* units, more than any distance of the layouts.
HValues == {0, 8 * Pow2(Precision - 1)}

\* Heuristic tables: the one lines 38-40 compute, and every table of HValues.
HeuristicTables ==
    [Nodes -> HValues]
        \cup { [node \in DOMAIN M.intersections |-> euc_dist(M, node, goal)] }

\* Lines 25-43 with H filled in from any table in place of lines 38-40.
CallAnyH ==
    /\ pc = "call"
    /\ \E h \in HeuristicTables :
        /\ prev_link' = [n \in {start} |-> None]
        /\ G' = [n \in {start} |-> 0]
        /\ H' = h
        /\ frontier' = SetToBag({ << FAdd(h[start], 0), start >> })
        /\ pc' = "loop"
    /\ UNCHANGED << M, start, goal, current_node, result, extracted, goal_path,
                    previous, expanded_at, stale, walk >>

NextAnyH == CallAnyH \/ Expand \/ Return

\* ------------------------------------- reconstruct_path, one step at a time
\* Predecessor maps a caller may pass: any dictionary from nodes to a node
\* or None.
PredecessorMaps ==
    UNION { [D -> Nodes \cup {None}] : D \in SUBSET Nodes }

\* Line 127: path[::-1].
Reverse(path) == [i \in 1 .. Len(path) |-> path[Len(path) + 1 - i]]

\* Lines 104-116: reconstruct_path is entered with any predecessor map, start
\* and goal; path = [goal], curr = goal.  The search's own locals play no part.
InitReconstruct ==
    /\ M = [intersections |-> EmptyDict, roads |-> EmptyDict]
    /\ prev_link \in PredecessorMaps
    /\ start \in NodeIds
    /\ goal \in NodeIds
    /\ pc = "walk"
    /\ walk_curr = goal
    /\ walk_path = << goal >>
    /\ result = Pending
    /\ frontier = EmptyBag
    /\ G = EmptyDict
    /\ H = EmptyDict
    /\ current_node = None
    /\ extracted = {}
    /\ goal_path = Pending
    /\ previous = Pending
    /\ expanded_at = EmptyDict
    /\ stale = FALSE

\* Variant: a chain that breaks off returns the nodes gathered so far.
WalkStep_PartialPath ==
    /\ pc = "walk"
    /\ walk_curr # start
    /\ Len(walk_path) < MaxWalk
    /\ LET nxt == IF walk_curr \in DOMAIN prev_link
                  THEN prev_link[walk_curr] ELSE None
       IN  IF nxt = None
           THEN /\ result' = Path(Reverse(walk_path))
                /\ pc' = "done"
                /\ walk_curr' = None
                /\ UNCHANGED walk_path
           ELSE /\ walk_curr' = nxt
                /\ walk_path' = Append(walk_path, nxt)
                /\ UNCHANGED << pc, result >>
    /\ UNCHANGED << M, start, goal, frontier, prev_link, G, H, current_node,
                    extracted, goal_path, previous, expanded_at, stale >>

\* Lines 119-123: one iteration of the while loop.  The loop has no bound of
\* its own; the model follows it for MaxWalk nodes.
WalkStep ==
    /\ pc = "walk"
    /\ walk_curr # start
    /\ Len(walk_path) < MaxWalk
    /\ LET nxt == IF walk_curr \in DOMAIN prev_link
                  THEN prev_link[walk_curr] ELSE None
       IN  IF nxt = None
           THEN /\ result' = NoPath
                /\ pc' = "done"
                /\ walk_curr' = None
                /\ UNCHANGED walk_path
           ELSE /\ walk_curr' = nxt
                /\ walk_path' = Append(walk_path, nxt)
                /\ UNCHANGED << pc, result >>
    /\ UNCHANGED << M, start, goal, frontier, prev_link, G, H, current_node,
                    extracted, goal_path, previous, expanded_at, stale >>

\* Lines 119 and 127: curr is start, the loop ends and the reversed path is
\* returned.
WalkReturn ==
    /\ pc = "walk"
    /\ walk_curr = start
    /\ result' = Path(Reverse(walk_path))
    /\ pc' = "done"
    /\ UNCHANGED << M, start, goal, frontier, prev_link, G, H, current_node,
                    extracted, goal_path, previous, expanded_at, stale, walk >>

NextReconstruct == WalkStep \/ WalkReturn

SpecReconstruct == InitReconstruct /\ [][NextReconstruct]_vars

\* ------------------------------------------------- what the claims speak of
\* The paths of map from u to g that visit no node of visited and none twice.
RECURSIVE PathsFrom(_, _, _, _)
PathsFrom(map, u, g, visited) ==
    IF u = g THEN { << u >> }
    ELSE UNION { { << u >> \o p : p \in PathsFrom(map, v, g, visited \cup {v}) } :
                 v \in map.roads[u] \ visited }

SimplePaths(map, s, g) == PathsFrom(map, s, g, {s})

\* The summed edge cost of a path, added up from its first node on.
RECURSIVE CostUpTo(_, _, _)
CostUpTo(map, path, i) ==
    IF i = 1 THEN 0
    ELSE FAdd(CostUpTo(map, path, i - 1), euc_dist(map, path[i - 1], path[i]))

PathCost(map, path) == CostUpTo(map, path, Len(path))

PathCosts(map, s, g) == { PathCost(map, p) : p \in SimplePaths(map, s, g) }

\* The least summed edge cost over the paths from s to g (g reachable).
MinCost(map, s, g) ==
    CHOOSE c \in PathCosts(map, s, g) : \A o \in PathCosts(map, s, g) : c <= o

ValidInput == start \in Nodes /\ goal \in Nodes

IsPathOf(map, path) ==
    \A i \in 1 .. (Len(path) - 1) : path[i + 1] \in map.roads[path[i]]

\* C1: for valid start and goal with goal reachable from start, the call
\* returns a path whose summed edge cost is the least summed edge cost over
\* all paths from start to goal.
C1_Optimality ==
    (pc = "done" /\ ValidInput /\ goal \in Reachable(M, start)) =>
        /\ result.kind = "path"
        /\ PathCost(M, result.path) = MinCost(M, start, goal)

\* A returned path of at least two roads where a dearer path also exists.
C1_Witness ==
    /\ pc = "done"
    /\ result.kind = "path"
    /\ Len(result.path) >= 3
    /\ Cardinality(PathCosts(M, start, goal)) >= 2

\* C2: for valid start and goal with goal not reachable from start, the
\* call does not raise and returns None, never a node sequence.
C2_NoPath ==
    (ValidInput /\ goal \notin Reachable(M, start)) =>
        /\ pc # "raised"
        /\ result.kind \in {"pending", "None"}
        /\ pc = "done" => (result = NoPath /\ frontier = EmptyBag)

\* The search explored several nodes, did not find the goal, returned None.
C2_Witness ==
    /\ pc = "done"
    /\ result = NoPath
    /\ goal \notin Reachable(M, start)
    /\ Cardinality(extracted) >= 3

\* C3: every returned path begins at start, ends at goal, and each of its
\* consecutive pairs (u, v) is a road: v is in M.roads[u].
C3_PathValidity ==
    result.kind = "path" =>
        /\ Len(result.path) >= 1
        /\ result.path[1] = start
        /\ result.path[Len(result.path)] = goal
        /\ IsPathOf(M, result.path)

\* A returned path that runs over two intermediate nodes.
C3_Witness ==
    /\ pc = "done"
    /\ result.kind = "path"
    /\ Len(result.path) = 4

\* C4: with a start or goal that is not a node of the map the call raises
\* before any frontier extraction; it returns neither None nor a path.
C4_InvalidInput ==
    (~ValidInput /\ pc # "call") =>
        /\ pc = "raised"
        /\ result = KeyError
        /\ extracted = {}
        /\ frontier = EmptyBag

\* A call with a valid start and a goal outside the map has raised.
C4_Witness ==
    /\ pc = "raised"
    /\ start \in Nodes
    /\ goal \notin Nodes

\* C5: shortest_path(M, s, s) returns exactly [s], whatever the neighbours
\* of s are.
C5_TrivialPath ==
    (ValidInput /\ start = goal) =>
        /\ pc # "raised"
        /\ pc = "done" => result = Path(<< start >>)

\* The trivial query was answered on a map where s has other neighbours,
\* which the loop relaxed before returning.
C5_Witness ==
    /\ pc = "done"
    /\ start = goal
    /\ M.roads[start] \ {start} # {}
    /\ Cardinality(DOMAIN G) >= 3
    /\ result = Path(<< start >>)

\* C6: two calls on the same map, start and goal end with the same kind of
\* outcome and, when both return a path, with paths of the same summed cost,
\* whichever entries of equal least priority each call extracted first.
C6_Determinism ==
    (pc \in {"done", "raised"} /\ previous # Pending) =>
        /\ result.kind = previous.kind
        /\ result.kind = "path" =>
              PathCost(M, result.path) = PathCost(M, previous.path)

\* Two calls broke a tie differently and returned different node sequences.
C6_Witness ==
    /\ pc = "done"
    /\ previous.kind = "path"
    /\ result.kind = "path"
    /\ result.path # previous.path

\* C7: once computed, H[goal] = 0, H[n] >= 0, H[n] is at most the least
\* path cost from n to goal, and H[u] <= edge_cost(u, v) + H[v] for every
\* road (u, v).
C7_AdmissibleConsistent ==
    pc \in {"loop", "done"} =>
        /\ H[goal] = 0
        /\ \A n \in Nodes :
              /\ H[n] >= 0
              /\ goal \in Reachable(M, n) => H[n] <= MinCost(M, n, goal)
              /\ \A v \in M.roads[n] : H[n] <= euc_dist(M, n, v) + H[v]

\* C8: the extraction of goal is terminal: that iteration relaxes nothing,
\* no iteration follows it, and the path reconstructed at that moment is
\* what the call returns.
C8_TerminalAtGoal ==
    [][ /\ (goal \notin extracted /\ goal \in extracted') =>
              (G' = G /\ prev_link' = prev_link)
        /\ (goal \in extracted /\ previous' = previous) =>
              (frontier' = frontier /\ G' = G /\ prev_link' = prev_link)
        /\ (pc = "loop" /\ pc' = "done" /\ goal_path # Pending) =>
              result' = goal_path ]_vars

\* C9: a node that has been extracted holds its least path cost from
\* start in G (so no later relaxation can lower it).
C9_FinalizedOptimal ==
    \A n \in extracted : G[n] = MinCost(M, start, n)

\* The chain of prev_link from n: reaches start, visits no node twice.
HasChain(n) ==
    LET r == reconstruct_path(prev_link, start, n)
    IN  /\ r.kind = "path"
        /\ Cardinality({ r.path[i] : i \in 1 .. Len(r.path) }) = Len(r.path)

\* C10: in every state of a search prev_link[start] is None and the chain
\* of every node of prev_link reaches start without repeating a node.
C10_PredecessorTree ==
    pc \in {"loop", "done"} =>
        /\ prev_link[start] = None
        /\ \A n \in DOMAIN prev_link : HasChain(n)

\* A search over a self-loop and a zero-length road, with a chain of three
\* nodes behind goal at the time goal has been extracted.
C10_Witness ==
    /\ pc = "loop"
    /\ goal \in extracted
    /\ \E n \in Nodes : n \in M.roads[n] /\ n \in extracted
    /\ \E n \in extracted : \E m \in M.roads[n] \ {n} :
          euc_dist(M, n, m) = 0 /\ m \in extracted
    /\ Len(reconstruct_path(prev_link, start, goal).path) >= 3

\* Calls with valid arguments, from the first node of the layout to the
\* last.
InitLive == Init /\ ValidInput /\ start = 1 /\ goal = NumNodes

\* The call runs on one thread without suspension points: while a step of
\* the call is possible, one is taken.

SpecLive == InitLive /\ [][Next]_vars /\ WF_vars(Next)

\* C11: for valid start and goal the loop makes finitely many extractions
\* and insertions: the frontier becomes empty and the call returns.
C11_Terminates ==
    <>(pc = "done" /\ frontier = EmptyBag)

\* A call with valid arguments has returned, and the last entry it took out
\* was a second entry of a node: more extractions than nodes were made.
C11_Witness ==
    /\ ValidInput
    /\ pc = "done"
    /\ frontier = EmptyBag
    /\ stale

\* C12: reconstruct_path terminates for every predecessor map, start and
\* goal and reports a chain caught in a cycle as a failure: the walk from
\* goal never gathers a node it has already gathered (a walk that does goes
\* round the same cycle for ever, the map being fixed).
C12_ReconstructTerminates ==
    Cardinality({ walk_path[i] : i \in 1 .. Len(walk_path) }) = Len(walk_path)

\* Following links from n, a node without a predecessor comes before s.
RECURSIVE ChainBreaks(_, _, _, _)
ChainBreaks(links, s, n, fuel) ==
    IF n = s \/ fuel = 0 THEN FALSE
    ELSE LET nxt == IF n \in DOMAIN links THEN links[n] ELSE None
         IN  nxt = None \/ ChainBreaks(links, s, nxt, fuel - 1)

\* C13: with goal # start, when the chain from goal reaches a node that has
\* no entry, or whose entry is None, before it reaches start,
\* reconstruct_path returns None and never the nodes gathered so far.
C13_DanglingChain ==
    /\ pc = "done"
    /\ goal # start
    /\ ChainBreaks(prev_link, start, goal, NumNodes + 1)
    => result = NoPath

\* reconstruct_path has returned from a chain of three nodes that breaks
\* off at a node without an entry.
C13_Witness ==
    /\ pc = "done"
    /\ goal # start
    /\ Len(walk_path) = 3
    /\ walk_path[3] \notin DOMAIN prev_link
    /\ result = NoPath

\* C14: in every state of a search G[start] = 0; a node of G stays in G;
\* and every write to G[n] of a node already in G strictly lowers G[n]: an
\* iteration never raises a value, and it makes exactly as many writes (one
\* frontier entry goes out, one comes in per write) as it adds or lowers
\* values.
C14_CostMapDiscipline ==
    [][ /\ pc \in {"loop", "done"} => G[start] = 0
        /\ pc' \in {"loop", "done"} => G'[start] = 0
        /\ pc = "loop" =>
              /\ DOMAIN G \subseteq DOMAIN G'
              /\ \A n \in DOMAIN G : G'[n] <= G[n]
              /\ frontier # EmptyBag =>
                    BagCardinality(frontier') + 1 - BagCardinality(frontier)
                      = Cardinality({ n \in DOMAIN G' :
                                        n \notin DOMAIN G \/ G'[n] < G[n] })
      ]_vars

\* A node was expanded and its cost was lowered afterwards.
C14_Witness ==
    /\ pc = "loop"
    /\ \E n \in DOMAIN expanded_at : G[n] < expanded_at[n]

\* C15: an iteration that takes out an entry of a node already expanded at
\* its current value G[n] leaves G and prev_link as they are and puts no
\* entry on the frontier: the frontier only loses the entry taken out.
C15_StaleHarmless ==
    [][ (pc = "loop" /\ frontier # EmptyBag /\ stale') =>
            /\ G' = G
            /\ prev_link' = prev_link
            /\ BagCardinality(frontier') = BagCardinality(frontier) - 1
      ]_vars

\* The entry just taken out was a stale one, of a node that has neighbors,
\* and entries of other nodes are still waiting.
C15_Witness ==
    /\ pc = "loop"
    /\ stale
    /\ M.roads[current_node] \ {current_node} # {}
    /\ frontier # EmptyBag

\* Searches with valid arguments, under any heuristic table.
InitAnyH == Init /\ ValidInput /\ goal = NumNodes

SpecAnyH == InitAnyH /\ [][NextAnyH]_vars

\* C16: when shortest_path returns, the keys of G are the nodes reachable
\* from start and G[n] is the least summed edge cost from start to n, for
\* any values of H; the returned path is then a cheapest one.
C16_AnyHeuristic ==
    pc = "done" =>
        /\ DOMAIN G = Reachable(M, start)
        /\ \A n \in DOMAIN G : G[n] = MinCost(M, start, n)
        /\ goal \in Reachable(M, start) =>
              /\ result.kind = "path"
              /\ PathCost(M, result.path) = MinCost(M, start, goal)

\* A search under a heuristic that is not zero at the goal has returned a
\* path of at least two roads where a dearer path also exists.
C16_Witness ==
    /\ pc = "done"
    /\ H[goal] # 0
    /\ result.kind = "path"
    /\ Len(result.path) >= 3
    /\ Cardinality(PathCosts(M, start, goal)) >= 2

\* C17: between loop iterations G and prev_link have the same keys, and
\* for every node n # start of G the predecessor p = prev_link[n] is in G,
\* n is a neighbor of p and G[n] >= G[p] + edge_cost(p, n); when the search
\* returns, the two sides are equal for every such n and the cost of the
\* returned path is G[goal].
C17_PredecessorCosts ==
    pc \in {"loop", "done"} =>
        /\ DOMAIN G = DOMAIN prev_link
        /\ \A n \in DOMAIN G \ {start} :
              LET p == prev_link[n]
              IN  /\ p \in DOMAIN G
                  /\ n \in M.roads[p]
                  /\ G[n] >= FAdd(G[p], euc_dist(M, p, n))
                  /\ pc = "done" => G[n] = FAdd(G[p], euc_dist(M, p, n))
        /\ (pc = "done" /\ result.kind = "path") =>
              PathCost(M, result.path) = G[goal]

\* A search has returned a path of at least two roads, and the last entry it
\* took out was a second entry of a node: the cost of a node was lowered.
C17_Witness ==
    /\ pc = "done"
    /\ result.kind = "path"
    /\ Len(result.path) >= 3
    /\ stale

\* The frontier fr against the cost map g: every entry is of a node of g
\* and has at least the node's current priority; every node of g has an
\* entry of exactly its current priority or was expanded at its current cost
\* (done being the costs at each node's last expansion).
FrontierCovers(fr, g, done) ==
    /\ \A e \in BagToSet(fr) :
          /\ e[2] \in DOMAIN g
          /\ e[1] >= FAdd(g[e[2]], H[e[2]])
    /\ \A n \in DOMAIN g :
          \/ BagIn(<< FAdd(g[n], H[n]), n >>, fr)
          \/ n \in DOMAIN done /\ done[n] = g[n]

\* C18: between loop iterations every frontier entry (f, n) has n in G and
\* f >= G[n] + H[n], and every node of G has an entry of priority exactly
\* G[n] + H[n] or was already expanded at its current G[n]; an iteration
\* takes one entry out and puts in exactly one entry for each node whose
\* cost it added or lowered, and nothing else changes the frontier.
C18_FrontierDiscipline ==
    [][ pc = "loop" =>
          /\ FrontierCovers(frontier, G, expanded_at)
          /\ FrontierCovers(frontier', G', expanded_at')
          /\ IF frontier = EmptyBag
             THEN frontier' = frontier
             ELSE \E e \in BagToSet(frontier) :
                    frontier' = (frontier (-) SetToBag({e})) (+)
                        SetToBag({ << FAdd(G'[n], H[n]), n >> :
                                   n \in { m \in DOMAIN G' :
                                             m \notin DOMAIN G \/ G'[m] # G[m] } })
      ]_vars

\* Between two iterations the frontier holds an entry that is out of date
\* and an entry of current priority, and some node has no entry left.
C18_Witness ==
    /\ pc = "loop"
    /\ \E e \in BagToSet(frontier) : e[1] > FAdd(G[e[2]], H[e[2]])
    /\ \E e \in BagToSet(frontier) : e[1] = FAdd(G[e[2]], H[e[2]])
    /\ \E n \in DOMAIN G : \A e \in BagToSet(frontier) : e[2] # n

TypeOK ==
    /\ pc \in {"call", "loop", "done", "raised"}
    /\ DOMAIN G = DOMAIN prev_link
====
